---- MODULE Spec2Model ----
(***************************************************************************)
(* A model of the stm32_i2s driver: the configuration builder, the         *)
(* frequency-to-prescaler calculator, driver construction and the          *)
(* mode-gated runtime operations of src/src/driver.rs, together with the   *)
(* crate-root driver of src/src/lib.rs and the TransferConfig wrapper of   *)
(* src/src/transfer.rs.                                                    *)
(*                                                                         *)
(* u32 quantities (clock and sample frequencies) are kept at their full    *)
(* 32-bit width.  A number is a pair <<hi, lo>> of 16-bit limbs standing   *)
(* for hi * 2^16 + lo; intermediate results that leave the u32 range keep  *)
(* hi >= 2^16, so that an overflow is seen before it is wrapped.           *)
(***************************************************************************)
EXTENDS Integers, Sequences, FiniteSets, TLC

\* ------------------------------------------------------------------------
\* Limb arithmetic on naturals below 2^47
\* ------------------------------------------------------------------------

LimbBase == 2 ^ 16

\* number of bits the long division walks over
DivBits == 16 + 26

W(x) == << x \div LimbBase, x % LimbBase >>

Norm(hi, lo) == << hi + (lo \div LimbBase), lo % LimbBase >>

WZero == << 0, 0 >>

WAdd(a, b) == Norm(a[1] + b[1], a[2] + b[2])

WLt(a, b) == a[1] < b[1] \/ (a[1] = b[1] /\ a[2] < b[2])

WLe(a, b) == a = b \/ WLt(a, b)

\* a - b, for b <= a
WSub(a, b) ==
    IF a[2] >= b[2] THEN << a[1] - b[1], a[2] - b[2] >>
    ELSE << a[1] - b[1] - 1, a[2] + LimbBase - b[2] >>

\* |a - b|
WDist(a, b) == IF WLe(b, a) THEN WSub(a, b) ELSE WSub(b, a)

\* a * k, for a below 2^32 and k below 2^15
WMul(a, k) == Norm(a[1] * k, a[2] * k)

\* a >> 1
WShr1(a) == << a[1] \div 2, (a[1] % 2) * (LimbBase \div 2) + (a[2] \div 2) >>

WBit(a, i) ==
    IF i >= 16 THEN (a[1] \div (2 ^ (i - 16))) % 2 ELSE (a[2] \div (2 ^ i)) % 2

\* schoolbook binary long division: returns << quotient, remainder >>.
\* (The test on q and r is always true; it makes TLC evaluate both at every
\* step instead of building a chain of 42 suspended computations.)
RECURSIVE WDivStep(_, _, _, _, _)
WDivStep(n, d, i, q, r) ==
    IF i >= 0 /\ q[1] >= 0 /\ r[1] >= 0
    THEN LET r2 == Norm(2 * r[1], 2 * r[2] + WBit(n, i))
             ge == WLe(d, r2)
             r3 == IF ge THEN WSub(r2, d) ELSE r2
             q2 == Norm(2 * q[1], 2 * q[2] + (IF ge THEN 1 ELSE 0))
         IN  WDivStep(n, d, i - 1, q2, r3)
    ELSE << q, r >>

\* truncating division and remainder, for d > 0
WDiv(n, d) == WDivStep(n, d, DivBits - 1, WZero, WZero)[1]

WMod(n, d) == WDivStep(n, d, DivBits - 1, WZero, WZero)[2]

\* the value as a plain integer, for values below 2^31
WInt(a) == a[1] * LimbBase + a[2]

\* u32 range
U32Max == << LimbBase - 1, LimbBase - 1 >>

FitsU32(a) == a[1] < LimbBase

WrapU32(a) == << a[1] % LimbBase, a[2] >>


\* ------------------------------------------------------------------------
\* u32 arithmetic as rustc compiles it.  `oc` says whether the build has
\* overflow checks (debug profile: an overflow panics) or not (release
\* profile: the result wraps).  A division by zero panics in every build.
\* A result is [ok |-> TRUE, val |-> v] or the panic [ok |-> FALSE, ...].
\* ------------------------------------------------------------------------

Ok(v) == [ok |-> TRUE, val |-> v]

Panic == [ok |-> FALSE, val |-> WZero]

u32_checked(x, oc) ==
    IF FitsU32(x) THEN Ok(x) ELSE IF oc THEN Panic ELSE Ok(WrapU32(x))

u32_add(a, b, oc) == u32_checked(WAdd(a, b), oc)

u32_mul(a, k, oc) == u32_checked(WMul(a, k), oc)

u32_div(n, d) == IF d = WZero THEN Panic ELSE Ok(WDiv(n, d))

\* ------------------------------------------------------------------------
\* Enumerations of driver.rs
\* ------------------------------------------------------------------------

SlaveOrMaster == {"Slave", "Master"}

TransmitOrReceive == {"Transmit", "Receive"}

I2sStandard == {"Philips", "Msb", "Lsb", "PcmShortSync", "PcmLongSync"}

ClockPolarity == {"IdleLow", "IdleHigh"}

DataFormat == {"Data16Channel16", "Data16Channel32", "Data24Channel32", "Data32Channel32"}

\* enum Frequency { Prescaler(bool, u8), Request(u32), Require(u32) }
Prescaler(odd, div) == [kind |-> "Prescaler", odd |-> odd, div |-> div, freq |-> WZero]

Request(freq) == [kind |-> "Request", odd |-> FALSE, div |-> 0, freq |-> freq]

Require(freq) == [kind |-> "Require", odd |-> FALSE, div |-> 0, freq |-> freq]

\* ------------------------------------------------------------------------
\* Frequency calculator
\* ------------------------------------------------------------------------

\* fn div_round(n: u32, d: u32) -> u32 { (n + (d >> 1)) / d }
div_round(n, d, oc) ==
    LET s == u32_add(n, WShr1(d), oc)
    IN  IF s.ok THEN u32_div(s.val, d) ELSE Panic

_coef(mclk, data_format) ==
    IF mclk THEN 256
    ELSE IF data_format = "Data16Channel16" THEN 32 ELSE 64

_set_prescaler(w, odd, div) == [w EXCEPT !.odd = odd, !.i2sdiv = div]

\* what the division is turned into by _set_request_frequency
clamp_division(division) ==
    IF WLt(division, W(4)) THEN << FALSE, 2 >>
    ELSE IF WLt(W(511), division) THEN << TRUE, 255 >>
    ELSE << WInt(division) % 2 = 1, WInt(division) \div 2 >>

_set_request_frequency(w, i2s_clock, request_freq, mclk, data_format, oc) ==
    LET coef == _coef(mclk, data_format)
        d    == u32_mul(request_freq, coef, oc)
        division == IF d.ok THEN div_round(i2s_clock, d.val, oc) ELSE Panic
        od   == clamp_division(division.val)
    IN  IF division.ok THEN Ok(_set_prescaler(w, od[1], od[2])) ELSE Panic

\* a faulty variant: the required frequency is approximated like a requested one
_set_require_frequency_rounding(w, i2s_clock, request_freq, mclk, data_format, oc) ==
    _set_request_frequency(w, i2s_clock, request_freq, mclk, data_format, oc)

\* `rem` is computed with the same `/` as `division` (driver.rs:305-306)
_set_require_frequency(w, i2s_clock, request_freq, mclk, data_format, oc) ==
    LET coef == _coef(mclk, data_format)
        d    == u32_mul(request_freq, coef, oc)
        division == IF d.ok THEN u32_div(i2s_clock, d.val) ELSE Panic
        rem  == IF d.ok THEN u32_div(i2s_clock, d.val) ELSE Panic
    IN  IF division.ok /\ rem.ok /\ rem.val = WZero
           /\ WLe(W(4), division.val) /\ WLe(division.val, W(511))
        THEN Ok(_set_prescaler(w, WInt(division.val) % 2 = 1, WInt(division.val) \div 2))
        ELSE Panic


\* ------------------------------------------------------------------------
\* Peripheral registers (the fields the driver touches)
\* ------------------------------------------------------------------------

Cr2Bits == {"txeie", "rxneie", "errie", "txdmaen", "rxdmaen"}

\* power-on reset values
ResetCr1 == {}

ResetCr2 == {}

ResetI2scfgr ==
    [i2smod |-> FALSE, i2se |-> FALSE, i2scfg |-> "slave_tx", pcmsync |-> "short",
     i2sstd |-> "philips", ckpol |-> "idle_low", datlen |-> 16, chlen |-> 16]

ResetI2spr == [mckoe |-> FALSE, odd |-> FALSE, i2sdiv |-> 2]

PowerOn ==
    [cr1 |-> ResetCr1, cr2 |-> ResetCr2, i2scfgr |-> ResetI2scfgr, i2spr |-> ResetI2spr]

\* registers as an earlier user of the peripheral may have left them
LeftOver ==
    [cr1 |-> {"spe"}, cr2 |-> Cr2Bits,
     i2scfgr |-> [i2smod |-> TRUE, i2se |-> TRUE, i2scfg |-> "master_rx",
                  pcmsync |-> "long", i2sstd |-> "pcm", ckpol |-> "idle_high",
                  datlen |-> 32, chlen |-> 32],
     i2spr |-> [mckoe |-> TRUE, odd |-> TRUE, i2sdiv |-> 255]]

\* ------------------------------------------------------------------------
\* Configuration builder of driver.rs: a configuration is a record; ms and tr
\* are the type parameters, the other fields are the struct's fields.
\* ------------------------------------------------------------------------

new_slave ==
    [ty |-> "I2sDriverConfig", ms |-> "Slave", tr |-> "Transmit",
     slave_or_master |-> "Slave", transmit_or_receive |-> "Transmit",
     standard |-> "Philips", clock_polarity |-> "IdleLow",
     data_format |-> "Data16Channel16", master_clock |-> FALSE,
     frequency |-> Prescaler(FALSE, 2)]

new_master ==
    [ty |-> "I2sDriverConfig", ms |-> "Master", tr |-> "Transmit",
     slave_or_master |-> "Master", transmit_or_receive |-> "Transmit",
     standard |-> "Philips", clock_polarity |-> "IdleLow",
     data_format |-> "Data16Channel16", master_clock |-> FALSE,
     frequency |-> Prescaler(FALSE, 2)]

transmit(c) == [c EXCEPT !.tr = "Transmit", !.transmit_or_receive = "Transmit"]

\* a faulty variant: the type changes, the direction field is carried over
receive_type_only(c) == [c EXCEPT !.tr = "Receive"]

receive(c) == [c EXCEPT !.tr = "Receive", !.transmit_or_receive = "Receive"]

standard(c, std) == [c EXCEPT !.standard = std]

clock_polarity(c, polarity) == [c EXCEPT !.clock_polarity = polarity]

data_format(c, format) == [c EXCEPT !.data_format = format]

\* a faulty variant: the master-only settings are carried over
to_slave_keeping(c) == [c EXCEPT !.ms = "Slave", !.slave_or_master = "Slave"]

to_slave(c) ==
    [c EXCEPT !.ms = "Slave", !.slave_or_master = "Slave",
              !.master_clock = FALSE, !.frequency = Prescaler(FALSE, 2)]

to_master(c) == [c EXCEPT !.ms = "Master", !.slave_or_master = "Master"]

master_clock(c, enable) == [c EXCEPT !.master_clock = enable]

\* a faulty variant: the test of div is missing
prescaler_unchecked(c, odd, div) == Ok([c EXCEPT !.frequency = Prescaler(odd, div)])

\* a faulty variant: the test of div is off by one
prescaler_off_by_one(c, odd, div) ==
    IF div <= 2 THEN Panic ELSE Ok([c EXCEPT !.frequency = Prescaler(odd, div)])

\* panics when div < 2, else stores Frequency::Prescaler(odd, div)
prescaler(c, odd, div) ==
    IF div < 2 THEN Panic ELSE Ok([c EXCEPT !.frequency = Prescaler(odd, div)])

request_frequency(c, freq) == [c EXCEPT !.frequency = Request(freq)]

require_frequency(c, freq) == [c EXCEPT !.frequency = Require(freq)]

\* TransferConfig wraps a driver configuration and forwards every builder call
transfer_prescaler(c, odd, div) == prescaler(c, odd, div)

transfer_to_slave(c) == to_slave(c)

transfer_to_master(c) == to_master(c)


\* ------------------------------------------------------------------------
\* The crate-root builder of lib.rs: Config<MS> holds only the two mode
\* fields; the remaining fields of the record are fillers that no lib.rs
\* code reads.
\* ------------------------------------------------------------------------

lib_new_slave ==
    [ty |-> "Config", ms |-> "Slave", tr |-> "Any",
     slave_or_master |-> "Slave", transmit_or_receive |-> "Transmit",
     standard |-> "Philips", clock_polarity |-> "IdleLow",
     data_format |-> "Data16Channel16", master_clock |-> FALSE,
     frequency |-> Prescaler(FALSE, 2)]

lib_new_master ==
    [lib_new_slave EXCEPT !.ms = "Master", !.slave_or_master = "Master"]

\* ------------------------------------------------------------------------
\* Driver construction
\* ------------------------------------------------------------------------

\* the value the i2scfgr.write closure builds, starting from the reset value
i2scfgr_value(c) ==
    [ResetI2scfgr EXCEPT
       !.i2smod = TRUE,
       !.i2scfg = IF c.slave_or_master = "Slave"
                  THEN (IF c.transmit_or_receive = "Transmit" THEN "slave_tx" ELSE "slave_rx")
                  ELSE (IF c.transmit_or_receive = "Transmit" THEN "master_tx" ELSE "master_rx"),
       !.i2sstd = CASE c.standard = "Philips" -> "philips"
                    [] c.standard = "Msb" -> "msb"
                    [] c.standard = "Lsb" -> "lsb"
                    [] OTHER -> "pcm",
       !.pcmsync = IF c.standard = "PcmLongSync" THEN "long" ELSE "short",
       !.datlen = CASE c.data_format = "Data24Channel32" -> 24
                    [] c.data_format = "Data32Channel32" -> 32
                    [] OTHER -> 16,
       !.chlen = IF c.data_format = "Data16Channel16" THEN 16 ELSE 32]

\* the value the i2spr.write closure builds, or the panic raised inside it
i2spr_value(c, i2s_freq, oc) ==
    LET w == [ResetI2spr EXCEPT !.mckoe = c.master_clock]
        f == c.frequency
    IN  CASE f.kind = "Prescaler" -> Ok(_set_prescaler(w, f.odd, f.div))
          [] f.kind = "Request" ->
               _set_request_frequency(w, i2s_freq, f.freq, c.master_clock, c.data_format, oc)
          [] OTHER ->
               _set_require_frequency(w, i2s_freq, f.freq, c.master_clock, c.data_format, oc)

\* I2sDriverConfig::i2s_driver: the registers it leaves, the register accesses
\* it made, and whether it returned a driver (ok) or panicked
i2s_driver(c, regs, i2s_freq, oc) ==
    LET pr == i2spr_value(c, i2s_freq, oc)
    IN  [ok   |-> pr.ok,
         regs |-> [cr1 |-> ResetCr1, cr2 |-> ResetCr2, i2scfgr |-> i2scfgr_value(c),
                   i2spr |-> IF pr.ok THEN pr.val ELSE regs.i2spr],
         log  |-> << "cr1", "cr2", "i2scfgr" >> \o (IF pr.ok THEN << "i2spr" >> ELSE << >>)]

\* Config::i2s_driver of lib.rs: resets cr1 and writes the mode to i2scfgr
lib_i2s_driver(c, regs) ==
    [ok   |-> TRUE,
     regs |-> [regs EXCEPT
                 !.cr1 = ResetCr1,
                 !.i2scfgr = [ResetI2scfgr EXCEPT
                     !.i2smod = TRUE,
                     !.i2scfg = IF c.slave_or_master = "Slave"
                                THEN (IF c.transmit_or_receive = "Transmit"
                                      THEN "slave_tx" ELSE "slave_rx")
                                ELSE (IF c.transmit_or_receive = "Transmit"
                                      THEN "master_tx" ELSE "master_rx")]],
     log  |-> << "cr1", "i2scfgr" >>]

\* I2sDriver::reconfigure: the peripheral is moved into a new construction
reconfigure(c, regs, i2s_freq, oc) == i2s_driver(c, regs, i2s_freq, oc)

\* a faulty variant: only the two control registers are reset
release_control_only(regs) == [regs EXCEPT !.cr1 = ResetCr1, !.cr2 = ResetCr2]

\* I2sDriver::release: all four registers go back to their reset values
release(regs) == PowerOn

\* a faulty variant: the channel width is not read back
sample_rate_ignoring_chlen(regs, i2s_freq) ==
    LET division == 2 * regs.i2spr.i2sdiv + (IF regs.i2spr.odd THEN 1 ELSE 0)
    IN  IF regs.i2spr.mckoe THEN u32_div(i2s_freq, W(256 * division))
        ELSE u32_div(i2s_freq, W((16 * 2) * division))

\* I2sDriver::sample_rate, in u32 arithmetic (no product here can overflow)
sample_rate(regs, i2s_freq) ==
    LET division == 2 * regs.i2spr.i2sdiv + (IF regs.i2spr.odd THEN 1 ELSE 0)
    IN  IF regs.i2spr.mckoe THEN u32_div(i2s_freq, W(256 * division))
        ELSE IF regs.i2scfgr.chlen = 16 THEN u32_div(i2s_freq, W((16 * 2) * division))
        ELSE u32_div(i2s_freq, W((32 * 2) * division))

\* ------------------------------------------------------------------------
\* Which methods exist for which type parameters (the impl blocks)
\* ------------------------------------------------------------------------

StatusFlags == {"bsy", "chside", "fre", "ovr", "rxne", "txe", "udr"}

\* impl blocks of Status<MS, TR> in driver.rs; the Status of lib.rs has no
\* type parameter and every accessor
accessor_exists(api, flag, ms, tr) ==
    IF api = "lib" THEN TRUE
    ELSE CASE flag \in {"bsy", "chside"} -> TRUE
           [] flag = "fre" -> ms = "Slave"
           [] flag \in {"ovr", "rxne"} -> tr = "Receive"
           [] flag = "txe" -> tr = "Transmit"
           [] OTHER -> ms = "Slave" /\ tr = "Transmit"

\* impl blocks of I2sDriver<I, Mode<MS, TR>> in driver.rs; I2sDriver<I> of
\* lib.rs has every toggle and no sample_rate, release or reconfigure
method_exists(api, op, ms, tr) ==
    IF api = "lib"
    THEN op \notin {"sample_rate", "release", "reconfigure"}
    ELSE CASE op \in {"write_data_register", "set_tx_interrupt", "set_tx_dma"} ->
                tr = "Transmit"
           [] op \in {"read_data_register", "set_rx_interrupt", "set_rx_dma"} ->
                tr = "Receive"
           [] op = "set_error_interrupt" -> ms = "Slave" \/ tr = "Receive"
           [] op = "sample_rate" -> ms = "Master"
           [] OTHER -> TRUE

\* a faulty variant: ovr() reads the neighbouring UDR bit
accessor_bit_misread(api, flag) ==
    IF flag = "ovr" \/ (api = "lib" /\ flag = "chside") THEN "udr" ELSE flag

\* the bit of the snapshot an accessor returns
accessor_bit(api, flag) ==
    IF api = "lib" /\ flag = "chside" THEN "udr" ELSE flag


\* ------------------------------------------------------------------------
\* Inputs
\* ------------------------------------------------------------------------

\* builder calls made on one configuration before it is consumed
MaxBuilderCalls == 2

\* I2S input clocks: 48 MHz, 49.152 MHz (= 4 * 256 * 48 kHz), and u32::MAX
ClockSet == {W(48000000), W(49152000), U32Max}

RequestFreqs == {W(0), W(1000), W(22085), W(48000), W(96000), W(16777216)}

RequireFreqs == {W(0), W(1000), W(48000), W(16777216)}

PrescalerDivs == {0, 1, 2, 3, 255}

\* status register contents the hardware may present
SrValues == {{}, {"chside", "txe"}, {"udr", "fre"}, {"ovr", "rxne", "bsy"}}

\* ready-made configurations: one per mode and per kind of frequency
RunConfigs ==
    {new_slave,
     receive(new_slave),
     prescaler(new_master, TRUE, 3).val,
     receive(new_master),
     request_frequency(master_clock(new_master, TRUE), W(48000)),
     require_frequency(master_clock(receive(new_master), TRUE), W(48000))}

\* ------------------------------------------------------------------------
\* State
\* ------------------------------------------------------------------------

VARIABLES
    phase,      \* "idle": peripheral free; "config": a configuration is being
                \* built; "driver": a driver owns the peripheral; "panicked"
    cfg,        \* the configuration being built
    ncalls,     \* builder calls made on cfg
    regs,       \* cr1, cr2, i2scfgr, i2spr of the peripheral
    i2s_clock,  \* what I2sPeripheral::i2s_freq() returns
    mode,       \* type parameters of the driver that owns the peripheral
    built,      \* the configuration the driver was constructed from
    log,        \* registers written by the last construction, in order
    panic_at,   \* the call that panicked (and, for prescaler, its div)
    snap,       \* the last Status value returned by status()
    ret,        \* the value the last call on the driver or a snapshot returned
    calc,       \* a call of div_round: its arguments and, once made, its result
    hw          \* the overrun flag as the peripheral holds it, and whether the
                \* data register was read since the flag was set

vars ==
    << phase, cfg, ncalls, regs, i2s_clock, mode, built, log, panic_at, snap, ret, calc, hw >>

NoConfig == [new_slave EXCEPT !.ty = "None"]

NoMode == [api |-> "none", ms |-> "Slave", tr |-> "Transmit"]

NoSnap == [api |-> "none", ms |-> "Slave", tr |-> "Transmit", value |-> {}]

NoRet == [op |-> "none", val |-> FALSE]

NoPanic == [op |-> "none", arg |-> 0]

NoCalc == [n |-> WZero, d |-> WZero, oc |-> FALSE, done |-> FALSE, out |-> Panic]

NoOverrun == [ovr |-> FALSE, dr_was_read |-> FALSE]

Init ==
    /\ phase = "idle"
    /\ cfg = NoConfig
    /\ ncalls = 0
    /\ regs \in {PowerOn, LeftOver}
    /\ i2s_clock \in ClockSet
    /\ mode = NoMode
    /\ built = NoConfig
    /\ log = << >>
    /\ panic_at = NoPanic
    /\ snap = NoSnap
    /\ ret = NoRet
    /\ calc = NoCalc
    /\ hw = NoOverrun

\* ------------------------------------------------------------------------
\* Builder calls
\* ------------------------------------------------------------------------

Start(c) ==
    /\ phase = "idle"
    /\ phase' = "config"
    /\ cfg' = c
    /\ ncalls' = 0
    /\ UNCHANGED << regs, i2s_clock, mode, built, log, panic_at, snap, ret, calc, hw >>

CallNewSlave == Start(new_slave)

CallNewMaster == Start(new_master)

CallLibNewSlave == Start(lib_new_slave)

CallLibNewMaster == Start(lib_new_master)

\* a builder method of I2sDriverConfig<MS, TR> is called and returns c
Built(c) ==
    /\ cfg' = c
    /\ ncalls' = ncalls + 1
    /\ UNCHANGED << phase, regs, i2s_clock, mode, built, log, panic_at, snap, ret, calc, hw >>

CanBuild ==
    phase = "config" /\ cfg.ty = "I2sDriverConfig" /\ ncalls < MaxBuilderCalls

CallTransmit == CanBuild /\ Built(transmit(cfg))

CallReceive == CanBuild /\ Built(receive(cfg))

CallStandard == CanBuild /\ \E std \in I2sStandard : Built(standard(cfg, std))

CallClockPolarity == CanBuild /\ \E p \in ClockPolarity : Built(clock_polarity(cfg, p))

CallDataFormat == CanBuild /\ \E f \in DataFormat : Built(data_format(cfg, f))

CallToSlave ==
    CanBuild /\ \E wrapped \in BOOLEAN :
        Built(IF wrapped THEN transfer_to_slave(cfg) ELSE to_slave(cfg))

CallToMaster ==
    CanBuild /\ \E wrapped \in BOOLEAN :
        Built(IF wrapped THEN transfer_to_master(cfg) ELSE to_master(cfg))

\* impl<TR> I2sDriverConfig<Master, TR>
CallMasterClock ==
    CanBuild /\ cfg.ms = "Master" /\ \E e \in BOOLEAN : Built(master_clock(cfg, e))

CallPrescaler ==
    /\ CanBuild
    /\ cfg.ms = "Master"
    /\ \E odd \in BOOLEAN, div \in PrescalerDivs, wrapped \in BOOLEAN :
         LET r == IF wrapped THEN transfer_prescaler(cfg, odd, div)
                  ELSE prescaler(cfg, odd, div)
         IN  IF r.ok THEN Built(r.val)
             ELSE /\ phase' = "panicked"
                  /\ panic_at' = [op |-> "prescaler", arg |-> div]
                  /\ cfg' = NoConfig
                  /\ UNCHANGED << ncalls, regs, i2s_clock, mode, built, log, snap, ret, calc, hw >>

CallRequestFrequency ==
    CanBuild /\ cfg.ms = "Master" /\ \E f \in RequestFreqs : Built(request_frequency(cfg, f))

CallRequireFrequency ==
    CanBuild /\ cfg.ms = "Master" /\ \E f \in RequireFreqs : Built(require_frequency(cfg, f))

\* ------------------------------------------------------------------------
\* Construction, release, reconfigure
\* ------------------------------------------------------------------------

\* the outcome r of constructing a driver from c
Construct(c, r) ==
    /\ regs' = r.regs
    /\ log' = r.log
    /\ built' = c
    /\ cfg' = NoConfig
    /\ ncalls' = 0
    /\ snap' = NoSnap
    /\ ret' = NoRet
    /\ IF r.ok
       THEN /\ phase' = "driver"
            /\ mode' = [api |-> IF c.ty = "Config" THEN "lib" ELSE "driver",
                        ms |-> c.ms, tr |-> c.tr]
            /\ panic_at' = panic_at
       ELSE /\ phase' = "panicked"
            /\ mode' = NoMode
            /\ panic_at' = [op |-> "i2s_driver", arg |-> 0]
    /\ UNCHANGED << i2s_clock, calc, hw >>

\* I2sDriver::new(peripheral, config) and config.i2s_driver(peripheral)
CallI2sDriver ==
    /\ phase = "config"
    /\ cfg.ty = "I2sDriverConfig"
    /\ \E oc \in BOOLEAN : Construct(cfg, i2s_driver(cfg, regs, i2s_clock, oc))

CallLibI2sDriver ==
    /\ phase = "config"
    /\ cfg.ty = "Config"
    /\ Construct(cfg, lib_i2s_driver(cfg, regs))

CallRelease ==
    /\ phase = "driver"
    /\ method_exists(mode.api, "release", mode.ms, mode.tr)
    /\ phase' = "idle"
    /\ regs' = release(regs)
    /\ log' = << "cr1", "cr2", "i2scfgr", "i2spr" >>
    /\ mode' = NoMode
    /\ built' = NoConfig
    /\ snap' = NoSnap
    /\ ret' = NoRet
    /\ UNCHANGED << cfg, ncalls, i2s_clock, panic_at, calc, hw >>

CallReconfigure ==
    /\ phase = "driver"
    /\ method_exists(mode.api, "reconfigure", mode.ms, mode.tr)
    /\ \E c \in RunConfigs, oc \in BOOLEAN :
         Construct(c, reconfigure(c, regs, i2s_clock, oc))

\* I2sDriver::new(i2s_peripheral, config) with a ready-made configuration
CallNew ==
    /\ phase = "idle"
    /\ \E c \in RunConfigs, oc \in BOOLEAN :
         Construct(c, i2s_driver(c, regs, i2s_clock, oc))

\* ------------------------------------------------------------------------
\* Runtime operations of a driver
\* ------------------------------------------------------------------------

\* The overrun flag, as the documentation of Status::ovr describes the
\* peripheral: it is cleared by a read of the data register followed by a read
\* of the status register.
read_dr(h) == IF h.ovr THEN [h EXCEPT !.dr_was_read = TRUE] ELSE h

read_sr(h) == IF h.ovr /\ h.dr_was_read THEN NoOverrun ELSE h

\* the peripheral receives a sample while the previous one is still unread
Overrun ==
    /\ phase = "driver"
    /\ regs.i2scfgr.i2se
    /\ regs.i2scfgr.i2scfg \in {"slave_rx", "master_rx"}
    /\ ~hw.ovr
    /\ hw' = [ovr |-> TRUE, dr_was_read |-> FALSE]
    /\ UNCHANGED << phase, cfg, ncalls, regs, i2s_clock, mode, built, log, panic_at,
                    snap, ret, calc >>

\* i2scfgr.modify(|_, w| w.i2se().enabled())
enable(r) == [r EXCEPT !.i2scfgr.i2se = TRUE]

disable(r) == [r EXCEPT !.i2scfgr.i2se = FALSE]

\* a faulty variant: cr2.write instead of cr2.modify, the other bits are lost
cr2_write(r, bit, enabled) == [r EXCEPT !.cr2 = IF enabled THEN {bit} ELSE {}]

\* cr2.modify(|_, w| w.<bit>().bit(enabled))
cr2_modify(r, bit, enabled) ==
    [r EXCEPT !.cr2 = IF enabled THEN @ \cup {bit} ELSE @ \ {bit}]

set_tx_interrupt(r, enabled) == cr2_modify(r, "txeie", enabled)

set_rx_interrupt(r, enabled) == cr2_modify(r, "rxneie", enabled)

set_error_interrupt(r, enabled) == cr2_modify(r, "errie", enabled)

set_tx_dma(r, enabled) == cr2_modify(r, "txdmaen", enabled)

set_rx_dma(r, enabled) == cr2_modify(r, "rxdmaen", enabled)

\* the driver method op exists for the driver's type and is called; it leaves
\* the registers r and returns v (NoRet for a method that returns nothing);
\* the program's snapshot is dropped
Call(op, r, v) ==
    /\ phase = "driver"
    /\ method_exists(mode.api, op, mode.ms, mode.tr)
    /\ regs' = r
    /\ ret' = v
    /\ snap' = NoSnap
    /\ hw' = IF op = "read_data_register" THEN read_dr(hw) ELSE hw
    /\ UNCHANGED << phase, cfg, ncalls, i2s_clock, mode, built, log, panic_at, calc >>

CallEnable == Call("enable", enable(regs), NoRet)

CallDisable == Call("disable", disable(regs), NoRet)

CallSetTxInterrupt ==
    \E e \in BOOLEAN : Call("set_tx_interrupt", set_tx_interrupt(regs, e), NoRet)

CallSetRxInterrupt ==
    \E e \in BOOLEAN : Call("set_rx_interrupt", set_rx_interrupt(regs, e), NoRet)

CallSetErrorInterrupt ==
    \E e \in BOOLEAN : Call("set_error_interrupt", set_error_interrupt(regs, e), NoRet)

CallSetTxDma == \E e \in BOOLEAN : Call("set_tx_dma", set_tx_dma(regs, e), NoRet)

CallSetRxDma == \E e \in BOOLEAN : Call("set_rx_dma", set_rx_dma(regs, e), NoRet)

CallWriteDataRegister == Call("write_data_register", regs, NoRet)

CallReadDataRegister ==
    Call("read_data_register", regs, [op |-> "read_data_register", val |-> FALSE])

\* sample_rate() divides by 256 * 0 when the prescaler register holds 0
CallSampleRate ==
    LET r == sample_rate(regs, i2s_clock)
    IN  IF r.ok THEN Call("sample_rate", regs, [op |-> "sample_rate", val |-> r.val])
        ELSE /\ phase = "driver"
             /\ method_exists(mode.api, "sample_rate", mode.ms, mode.tr)
             /\ phase' = "panicked"
             /\ panic_at' = [op |-> "sample_rate", arg |-> 0]
             /\ UNCHANGED << cfg, ncalls, regs, i2s_clock, mode, built, log, snap, ret, calc, hw >>

\* status() returns the status register's content, tagged with the driver's type
CallStatus ==
    /\ phase = "driver"
    /\ method_exists(mode.api, "status", mode.ms, mode.tr)
    /\ \E v \in SrValues :
         /\ ("ovr" \in v) = hw.ovr
         /\ snap' = [api |-> mode.api, ms |-> mode.ms, tr |-> mode.tr, value |-> v]
    /\ hw' = read_sr(hw)
    /\ ret' = NoRet
    /\ UNCHANGED << phase, cfg, ncalls, regs, i2s_clock, mode, built, log, panic_at, calc >>

\* an accessor of the snapshot: it exists for the snapshot's type, touches no
\* register and returns the captured bit
CallAccessor ==
    /\ snap.api # "none"
    /\ \E flag \in StatusFlags :
         /\ accessor_exists(snap.api, flag, snap.ms, snap.tr)
         /\ ret' = [op |-> flag, val |-> accessor_bit(snap.api, flag) \in snap.value]
    /\ UNCHANGED << phase, cfg, ncalls, regs, i2s_clock, mode, built, log, panic_at,
                    snap, calc, hw >>

\* The builder, construction and the register-writing runtime operations
Next ==
    \/ CallNewSlave \/ CallNewMaster \/ CallLibNewSlave \/ CallLibNewMaster
    \/ CallTransmit \/ CallReceive \/ CallStandard \/ CallClockPolarity
    \/ CallDataFormat \/ CallToSlave \/ CallToMaster
    \/ CallMasterClock \/ CallPrescaler \/ CallRequestFrequency \/ CallRequireFrequency
    \/ CallI2sDriver \/ CallLibI2sDriver \/ CallRelease
    \/ CallEnable \/ CallDisable
    \/ CallSetTxInterrupt \/ CallSetRxInterrupt \/ CallSetErrorInterrupt
    \/ CallSetTxDma \/ CallSetRxDma
    \/ CallWriteDataRegister \/ CallReadDataRegister
    \/ CallSampleRate

Spec == Init /\ [][Next]_vars

\* A driver built from a ready-made configuration, with every runtime
\* operation, the status snapshots and their accessors
NextRun ==
    \/ CallNew \/ CallLibNewSlave \/ CallLibNewMaster \/ CallLibI2sDriver
    \/ CallRelease \/ CallReconfigure
    \/ CallEnable \/ CallDisable
    \/ CallSetTxInterrupt \/ CallSetRxInterrupt \/ CallSetErrorInterrupt
    \/ CallSetTxDma \/ CallSetRxDma
    \/ CallWriteDataRegister \/ CallReadDataRegister
    \/ CallSampleRate \/ CallStatus \/ CallAccessor
    \/ Overrun

SpecRun == Init /\ [][NextRun]_vars


\* The rounding division on its own
CalcN ==
    {W(0), W(1), W(2), W(3), W(9), W(48000000), W(2147483647),
     << LimbBase - 1, LimbBase - 2 >>, U32Max}

CalcD == {W(1), W(2), W(3), W(4), W(5), W(12288000), U32Max}

InitCalc ==
    /\ phase = "idle"
    /\ cfg = NoConfig
    /\ ncalls = 0
    /\ regs = PowerOn
    /\ i2s_clock = W(48000000)
    /\ mode = NoMode
    /\ built = NoConfig
    /\ log = << >>
    /\ panic_at = NoPanic
    /\ snap = NoSnap
    /\ ret = NoRet
    /\ hw = NoOverrun
    /\ \E n \in CalcN, d \in CalcD, oc \in BOOLEAN :
         calc = [n |-> n, d |-> d, oc |-> oc, done |-> FALSE, out |-> Panic]

CallDivRound ==
    /\ ~calc.done
    /\ calc' = [calc EXCEPT !.done = TRUE, !.out = div_round(calc.n, calc.d, calc.oc)]
    /\ UNCHANGED << phase, cfg, ncalls, regs, i2s_clock, mode, built, log, panic_at,
                    snap, ret, hw >>

NextCalc == CallDivRound

SpecCalc == InitCalc /\ [][NextCalc]_vars

\* ------------------------------------------------------------------------
\* What the specification says of the calculator, in exact integers
\* ------------------------------------------------------------------------

\* coef(master_clock, data_format) of the specification
ClaimCoef(c) ==
    IF c.master_clock THEN 256
    ELSE IF c.data_format = "Data16Channel16" THEN 32 ELSE 64

\* coef * freq, not truncated to 32 bits
Denominator(c) == WMul(c.frequency.freq, ClaimCoef(c))

\* Require(freq) can be met: the clock is an exact multiple of coef * freq and
\* the quotient lies in [4, 511]
RequireSatisfiable(clock, c) ==
    /\ Denominator(c) # WZero
    /\ WMod(clock, Denominator(c)) = WZero
    /\ WLe(W(4), WDiv(clock, Denominator(c)))
    /\ WLe(WDiv(clock, Denominator(c)), W(511))

\* n / d rounded to the nearest integer, ties up: the k with
\* 2kd - d <= 2n < 2kd + d, that is k = floor((2n + d) / 2d)
RoundHalfUp(n, d) == WDiv(WAdd(WMul(n, 2), d), WMul(d, 2))

\* the (odd, div) pair the specification gives for Request(freq)
ClaimRequestPrescaler(clock, c) ==
    LET d == Denominator(c)
        division == WDiv(WAdd(clock, WShr1(d)), d)
    IN  IF WLt(division, W(4)) THEN << FALSE, 2 >>
        ELSE IF WLt(W(511), division) THEN << TRUE, 255 >>
        ELSE << WInt(division) % 2 = 1, WInt(division) \div 2 >>

\* the division the prescaler register holds
Division(r) == 2 * r.i2spr.i2sdiv + (IF r.i2spr.odd THEN 1 ELSE 0)

\* a driver of driver.rs was constructed, or its construction was attempted,
\* from a configuration with this kind of frequency
BuiltWith(kind) ==
    built.ty = "I2sDriverConfig" /\ built.frequency.kind = kind

Written(reg) == \E i \in 1..Len(log) : log[i] = reg


\* ------------------------------------------------------------------------
\* Claims
\* ------------------------------------------------------------------------

\* C1: a Master configuration with require_frequency(freq), where i2s_clock
\* is an exact multiple of coef * freq with the quotient in [4, 511], is
\* constructed successfully, the prescaler register holds odd = quotient & 1
\* and div = quotient >> 1, and sample_rate() returns freq.
C1_RequireExactSucceeds ==
    (BuiltWith("Require") /\ built.slave_or_master = "Master"
       /\ RequireSatisfiable(i2s_clock, built))
    => /\ phase = "driver"
       /\ regs.i2spr.odd = (WInt(WDiv(i2s_clock, Denominator(built))) % 2 = 1)
       /\ regs.i2spr.i2sdiv = WInt(WDiv(i2s_clock, Denominator(built))) \div 2
       /\ sample_rate(regs, i2s_clock) = Ok(built.frequency.freq)

\* C2: construction from require_frequency(freq) panics whenever the clock is
\* not an exact multiple of coef * freq or the quotient is outside [4, 511],
\* and the prescaler register is then not written.
C2_RequireUnsatisfiableFails ==
    (BuiltWith("Require") /\ ~RequireSatisfiable(i2s_clock, built))
    => /\ phase = "panicked"
       /\ panic_at.op = "i2s_driver"
       /\ ~Written("i2spr")

\* C2's case: 48 MHz, master clock on, 48 kHz required (quotient 3.906)
C2_Witness ==
    /\ BuiltWith("Require")
    /\ i2s_clock = W(48000000)
    /\ built.master_clock
    /\ built.frequency.freq = W(48000)
    /\ phase = "panicked"

\* C3: for request_frequency(freq) with freq > 0, construction writes the
\* prescaler (odd, div) obtained from division = (i2s_clock + coef*freq/2) /
\* (coef*freq), clamped to (FALSE, 2) below 4 and to (TRUE, 255) above 511.
C3_RequestPrescalerFormula ==
    (BuiltWith("Request") /\ built.frequency.freq # WZero)
    => /\ phase = "driver"
       /\ regs.i2spr.mckoe = built.master_clock
       /\ << regs.i2spr.odd, regs.i2spr.i2sdiv >> = ClaimRequestPrescaler(i2s_clock, built)

\* the rate of division m, and how far it is from the requested frequency
RateOf(clock, c, m) == WDiv(clock, W(ClaimCoef(c) * m))

RateError(clock, c, m) == WDist(RateOf(clock, c, m), c.frequency.freq)

\* the request is one the u32 computation handles without overflow
RequestInRange(clock, c) ==
    /\ Denominator(c) # WZero
    /\ FitsU32(Denominator(c))
    /\ FitsU32(WAdd(clock, WShr1(Denominator(c))))

\* C4: for request_frequency(freq), no division in [4, 511] yields a rate
\* i2s_clock / (coef * division) strictly closer to freq than the division
\* the driver selects.  (Stated here for the requests whose computation does
\* not overflow: the claim fails among those already.)
C4_RequestNearestRate ==
    (BuiltWith("Request") /\ phase = "driver" /\ RequestInRange(i2s_clock, built))
    => \A m \in 4..511 :
         ~WLt(RateError(i2s_clock, built, m), RateError(i2s_clock, built, Division(regs)))

\* C5: construction fails only when the frequency is a Require: with a
\* Prescaler or a Request it always returns a driver.
C5_OnlyRequireFails ==
    (panic_at.op = "i2s_driver") => BuiltWith("Require")

\* C6: for all u32 n and d > 0, div_round(n, d) is n / d rounded to the
\* nearest integer, ties up.
C6_DivRoundNearest ==
    calc.done => (calc.out.ok /\ calc.out.val = RoundHalfUp(calc.n, calc.d))

\* C7: a constructed driver's prescaler register holds div >= 2 and
\* 4 <= 2*div + odd <= 511, whatever the frequency and the runtime
\* operations made since.
C7_PrescalerRange ==
    (phase = "driver" /\ mode.api = "driver")
    => (regs.i2spr.i2sdiv >= 2 /\ Division(regs) >= 4 /\ Division(regs) <= 511)

\* C7's case: a request clamped at the upper end, then enable() and a toggle
C7_Witness ==
    /\ phase = "driver"
    /\ BuiltWith("Request")
    /\ Division(regs) = 511
    /\ regs.i2scfgr.i2se
    /\ regs.cr2 # {}

C8_Step ==
    /\ (panic_at.op = "none" /\ panic_at'.op = "prescaler")
       => /\ panic_at'.arg < 2
          /\ phase = "config" /\ phase' = "panicked"
          /\ cfg' = NoConfig
          /\ regs' = regs /\ log' = log
    /\ (phase = "config" /\ cfg.ty = "I2sDriverConfig" /\ cfg.ms = "Master")
       => \A odd \in BOOLEAN, div \in PrescalerDivs :
            LET r == prescaler(cfg, odd, div)
            IN  /\ r.ok <=> div >= 2
                /\ r.ok => r.val = [cfg EXCEPT !.frequency = Prescaler(odd, div)]
                /\ transfer_prescaler(cfg, odd, div) = r
    /\ (phase = "config" /\ phase' = "driver" /\ cfg.ty = "I2sDriverConfig"
          /\ cfg.frequency.kind = "Prescaler")
       => /\ regs'.i2spr.odd = cfg.frequency.odd
          /\ regs'.i2spr.i2sdiv = cfg.frequency.div

\* C8: prescaler(odd, div) panics exactly when div < 2, at builder time, with
\* no configuration produced and no register touched; for div >= 2 it returns
\* the configuration with Frequency::Prescaler(odd, div), and construction
\* writes that pair unchanged to the prescaler register.
C8_PrescalerBuilder == [][C8_Step]_vars

\* C8's case: prescaler(_, 1) was called
C8_Witness ==
    phase = "panicked" /\ panic_at = [op |-> "prescaler", arg |-> 1]

\* C9: construction from a driver.rs configuration never leaves i2scfgr
\* rewritten without i2spr written too, a failed construction included.
C9_AllOrNothing ==
    (built.ty = "I2sDriverConfig" /\ Written("i2scfgr")) => Written("i2spr")

\* the hardware precondition of a status flag
FlagPrecondition(flag, ms, tr) ==
    CASE flag = "fre" -> ms = "Slave"
      [] flag \in {"ovr", "rxne"} -> tr = "Receive"
      [] flag = "txe" -> tr = "Transmit"
      [] flag = "udr" -> ms = "Slave" /\ tr = "Transmit"
      [] OTHER -> TRUE

\* C10: an accessor is called on a snapshot only if the mode of the driver
\* that produced it satisfies the flag's precondition, and bsy() and chside()
\* exist for every snapshot; for each Status type of the crate.
C10_AccessorsGated ==
    /\ (ret.op \in StatusFlags)
       => FlagPrecondition(ret.op, built.slave_or_master, built.transmit_or_receive)
    /\ (snap.api # "none")
       => /\ accessor_exists(snap.api, "bsy", snap.ms, snap.tr)
          /\ accessor_exists(snap.api, "chside", snap.ms, snap.tr)

\* the operations the specification permits in a mode
OpPermitted(op, ms, tr) ==
    CASE op \in {"write_data_register", "set_tx_interrupt", "set_tx_dma"} -> tr = "Transmit"
      [] op \in {"read_data_register", "set_rx_interrupt", "set_rx_dma"} -> tr = "Receive"
      [] op = "set_error_interrupt" -> ~(ms = "Master" /\ tr = "Transmit")
      [] op = "sample_rate" -> ms = "Master"
      [] OTHER -> TRUE

\* the role and direction the driver was configured with
Role == built.slave_or_master

Direction == built.transmit_or_receive

\* the guard of Call: the method exists for the type of the driver
Available(op) == phase = "driver" /\ method_exists(mode.api, op, mode.ms, mode.tr)

C11_Available ==
    \A op \in {"write_data_register", "set_tx_interrupt", "set_tx_dma",
               "read_data_register", "set_rx_interrupt", "set_rx_dma",
               "set_error_interrupt", "sample_rate"} :
        Available(op) => OpPermitted(op, Role, Direction)

C11_ModeStep ==
    (phase = "driver" /\ phase' = "driver" /\ (mode' # mode \/ built' # built))
    => CallReconfigure

\* C11: in every driver state an operation is available only if the driver's
\* role and direction permit it (transmit operations for Transmit, receive
\* operations for Receive, set_error_interrupt except for Master+Transmit,
\* sample_rate for Master), and the mode of a driver changes only through
\* reconfigure, for both drivers of the crate.
C11_ModeGating == [] C11_Available /\ [][C11_ModeStep]_vars

\* a step that constructs a driver from the configuration being built
ConstructionReturns == phase = "config" /\ phase' = "driver"

C12_Step ==
    ConstructionReturns
    => /\ log' = << "cr1", "cr2", "i2scfgr", "i2spr" >>
       /\ "spe" \notin regs'.cr1
       /\ ~regs'.i2scfgr.i2se
       /\ regs'.cr2 \cap Cr2Bits = {}

\* C12: a construction that returns has reset cr1, reset cr2, written i2scfgr
\* and written i2spr, in this order, and leaves the peripheral disabled and
\* every interrupt and DMA request enable of cr2 off, whatever the registers
\* held before; for both constructors of the crate.
C12_ConstructionOrder == [][C12_Step]_vars

\* the operations of a driver
DriverOps ==
    {"enable", "disable", "status", "write_data_register", "set_tx_interrupt",
     "set_tx_dma", "read_data_register", "set_rx_interrupt", "set_rx_dma",
     "set_error_interrupt", "sample_rate", "release", "reconfigure"}

C13_Step ==
    (phase = "driver" /\ phase' = "idle")
    => /\ regs' = PowerOn
       /\ "spe" \notin regs'.cr1 /\ ~regs'.i2scfgr.i2se /\ ~regs'.i2scfgr.i2smod
       /\ regs'.cr2 = {}
       /\ regs'.i2spr = ResetI2spr
       /\ mode' = NoMode /\ snap' = NoSnap
       /\ \A op \in DriverOps :
            ~(phase' = "driver" /\ method_exists(mode'.api, op, mode'.ms, mode'.tr))

\* C13: release(), after any runtime operations, leaves cr1, cr2, i2scfgr and
\* i2spr at their reset values, hands the peripheral back (it is free for a
\* new construction) and leaves no driver on which an operation exists.
C13_ReleaseResets == [][C13_Step]_vars

\* C13's case: release() was called and wrote the four registers
C13_Witness ==
    /\ phase = "idle"
    /\ log = << "cr1", "cr2", "i2scfgr", "i2spr" >>
    /\ regs = PowerOn

C14_Step ==
    CallReconfigure
    => \E oc \in BOOLEAN :
         LET r == i2s_driver(built', release(regs), i2s_clock, oc)
         IN  /\ regs' = r.regs
             /\ (phase' = "driver") = r.ok

\* C14: from every driver state and for every new configuration,
\* reconfigure(new_config) leaves cr1, cr2, i2scfgr and i2spr, and returns or
\* fails, exactly as release() followed by a construction from new_config.
C14_ReconfigureIsReleaseThenBuild == [][C14_Step]_vars

\* the fields both conversions carry over
SameAttributes(a, b) ==
    /\ a.transmit_or_receive = b.transmit_or_receive /\ a.tr = b.tr
    /\ a.standard = b.standard
    /\ a.clock_polarity = b.clock_polarity
    /\ a.data_format = b.data_format

C15_Step ==
    /\ CallToSlave
       => /\ cfg'.slave_or_master = "Slave" /\ cfg'.ms = "Slave"
          /\ cfg'.master_clock = FALSE
          /\ cfg'.frequency = Prescaler(FALSE, 2)
          /\ SameAttributes(cfg', cfg)
    /\ CallToMaster
       => /\ cfg'.slave_or_master = "Master" /\ cfg'.ms = "Master"
          /\ cfg'.master_clock = cfg.master_clock
          /\ cfg'.frequency = cfg.frequency
          /\ SameAttributes(cfg', cfg)
    /\ (phase = "config" /\ cfg.ty = "I2sDriverConfig")
       => /\ transfer_to_slave(cfg) = to_slave(cfg)
          /\ transfer_to_master(cfg) = to_master(cfg)
          /\ to_slave(cfg) = [cfg EXCEPT !.ms = "Slave", !.slave_or_master = "Slave",
                                         !.master_clock = FALSE,
                                         !.frequency = Prescaler(FALSE, 2)]
          /\ to_master(cfg) = [cfg EXCEPT !.ms = "Master", !.slave_or_master = "Master"]

\* C15: to_slave keeps direction, standard, clock polarity and data format
\* and returns role Slave, master_clock = false and Prescaler(false, 2)
\* whatever the input held; to_master changes only the role to Master; the
\* transfer configuration does the same.
C15_RoleConversions == [][C15_Step]_vars

\* C15's case: to_slave was called on a master configuration that held a
\* requested frequency
C15_Witness ==
    /\ phase = "config"
    /\ ncalls = 2
    /\ cfg = to_slave(request_frequency(new_master, W(48000)))

\* i2s_clock / (coef(master_clock, data_format) * division), with the
\* calculator's coef
RateFromConfig(clock, c, division) ==
    WDiv(clock, W(_coef(c.master_clock, c.data_format) * division))

\* C16: on a Master driver of driver.rs, sample_rate() is i2s_clock /
\* (coef * (2*div + odd)) for the odd, div and master-clock enable held by
\* i2spr, with the coef the calculator uses for the configuration's
\* master_clock and data format; built with prescaler(odd, div), it is
\* i2s_clock / (coef(master_clock, data_format) * (2*div + odd)).
C16_SampleRateReadback ==
    /\ (phase = "driver" /\ mode.api = "driver" /\ mode.ms = "Master")
       => /\ regs.i2spr.mckoe = built.master_clock
          /\ (regs.i2scfgr.chlen = 16) = (built.data_format = "Data16Channel16")
          /\ BuiltWith("Prescaler")
             => Division(regs) =
                  2 * built.frequency.div + (IF built.frequency.odd THEN 1 ELSE 0)
    /\ (ret.op = "sample_rate")
       => ret.val = RateFromConfig(i2s_clock, built, Division(regs))

\* C16's case: sample_rate() returned on a driver built with prescaler(_, 3)
\* and 32-bit channels
C16_Witness ==
    /\ ret.op = "sample_rate"
    /\ BuiltWith("Prescaler")
    /\ built.frequency.div = 3
    /\ built.data_format # "Data16Channel16"
    /\ ~built.master_clock

\* C17: chside() returns Right (TRUE here) exactly when the CHSIDE bit of the
\* captured status register is set, whatever the other bits hold, for both
\* Status types of the crate.
C17_ChsideReadsChside ==
    (ret.op = "chside") => (ret.val = ("chside" \in snap.value))

\* a step in which an accessor of the snapshot returned
AccessorReturned ==
    /\ ret'.op \in StatusFlags
    /\ (ret.op # ret'.op) \/ (ret.val # ret'.val)

\* a step in which status() returned a snapshot
StatusReturned == snap'.api # "none" /\ ret'.op = "none"

C18_Step ==
    /\ AccessorReturned
       => /\ regs' = regs /\ hw' = hw /\ snap' = snap
          /\ (ret'.op = "ovr") => (ret'.val = ("ovr" \in snap.value))
    /\ (ret.op = "ovr" /\ ret'.op = "ovr") => (ret'.val = ret.val)
    /\ (hw.ovr /\ ~hw.dr_was_read) => hw'.ovr
    /\ (hw.ovr /\ StatusReturned) => "ovr" \in snap'.value
    /\ (hw.ovr /\ ~hw'.ovr) => (hw.dr_was_read /\ StatusReturned)
    /\ (~hw.dr_was_read /\ hw'.dr_was_read) => ret'.op = "read_data_register"

VariantsWritten(c) ==
    {[c EXCEPT !.slave_or_master = r, !.ms = r] : r \in SlaveOrMaster \ {c.slave_or_master}}
    \cup {[c EXCEPT !.transmit_or_receive = d, !.tr = d] :
            d \in TransmitOrReceive \ {c.transmit_or_receive}}
    \cup {standard(c, std) : std \in I2sStandard \ {c.standard}}
    \cup {data_format(c, f) : f \in DataFormat \ {c.data_format}}
    \cup {master_clock(c, ~c.master_clock)}

\* the configurations that differ from c in the clock polarity
VariantsPolarity(c) == {clock_polarity(c, p) : p \in ClockPolarity \ {c.clock_polarity}}

\* constructing from c2 instead, on the same peripheral, leaves other registers
Distinguished(c2) ==
    \A oc \in BOOLEAN :
        LET r2 == i2s_driver(c2, regs, i2s_clock, oc)
        IN  r2.ok => r2.regs # regs'

C19_Step ==
    (ConstructionReturns /\ cfg.ty = "I2sDriverConfig")
    => \A c2 \in VariantsWritten(cfg) \cup VariantsPolarity(cfg) : Distinguished(c2)

\* C19: a construction leaves register contents that differ from those of a
\* construction from any configuration that differs in role, direction,
\* standard, clock polarity, data format or master_clock.
C19_EveryFieldMaterialized == [][C19_Step]_vars

\* r2 is r with this one bit of cr2 set to the given value
OnlyCr2Bit(r, r2, bit, enabled) ==
    r2 = [r EXCEPT !.cr2 = (@ \ {bit}) \cup (IF enabled THEN {bit} ELSE {})]

\* every toggle, on the registers as they are: its own bit takes the given
\* value, nothing else changes, and a second call changes nothing
C20_Toggles ==
    /\ enable(regs) = [regs EXCEPT !.i2scfgr.i2se = TRUE]
    /\ disable(regs) = [regs EXCEPT !.i2scfgr.i2se = FALSE]
    /\ enable(enable(regs)) = enable(regs)
    /\ disable(disable(regs)) = disable(regs)
    /\ \A e \in BOOLEAN :
         /\ OnlyCr2Bit(regs, set_tx_interrupt(regs, e), "txeie", e)
         /\ OnlyCr2Bit(regs, set_rx_interrupt(regs, e), "rxneie", e)
         /\ OnlyCr2Bit(regs, set_error_interrupt(regs, e), "errie", e)
         /\ OnlyCr2Bit(regs, set_tx_dma(regs, e), "txdmaen", e)
         /\ OnlyCr2Bit(regs, set_rx_dma(regs, e), "rxdmaen", e)
         /\ set_tx_interrupt(set_tx_interrupt(regs, e), e) = set_tx_interrupt(regs, e)
         /\ set_rx_interrupt(set_rx_interrupt(regs, e), e) = set_rx_interrupt(regs, e)
         /\ set_error_interrupt(set_error_interrupt(regs, e), e) = set_error_interrupt(regs, e)
         /\ set_tx_dma(set_tx_dma(regs, e), e) = set_tx_dma(regs, e)
         /\ set_rx_dma(set_rx_dma(regs, e), e) = set_rx_dma(regs, e)

\* the bits of cr2 that differ between two register contents
Cr2Changed(r, r2) == (r.cr2 \ r2.cr2) \cup (r2.cr2 \ r.cr2)

C20_Step ==
    (phase = "driver" /\ phase' = "driver")
    => /\ C20_Toggles
       /\ mode' = mode /\ built' = built
       /\ regs'.cr1 = regs.cr1
       /\ regs'.i2spr = regs.i2spr
       /\ [regs'.i2scfgr EXCEPT !.i2se = FALSE] = [regs.i2scfgr EXCEPT !.i2se = FALSE]
       /\ Cardinality(Cr2Changed(regs, regs')) <= 1
       /\ (regs'.i2scfgr.i2se # regs.i2scfgr.i2se) => regs'.cr2 = regs.cr2
       /\ (ret.op = "sample_rate" /\ regs' # regs)
          => sample_rate(regs', i2s_clock) = Ok(ret.val)

\* C20: enable()/disable() change only the enable bit of i2scfgr; each of
\* set_tx_interrupt, set_rx_interrupt, set_error_interrupt, set_tx_dma and
\* set_rx_dma sets its own bit of cr2 to the given value and leaves the other
\* bits, i2scfgr and i2spr alone; a repeated call changes nothing; so the mode
\* and sample_rate() are the same after any runtime operation.
C20_TogglesFrame == [][C20_Step]_vars

\* C20's case: a master driver after enable() and two toggles
C20_Witness ==
    /\ phase = "driver"
    /\ mode = [api |-> "driver", ms |-> "Master", tr |-> "Transmit"]
    /\ regs.i2scfgr.i2se
    /\ regs.cr2 = {"txeie", "txdmaen"}

\* the role and direction fields of c are those its type parameters name, and
\* a Slave-typed c holds the master-only settings of new_slave()
TagsAreFields(c) ==
    /\ c.slave_or_master = c.ms
    /\ (c.ty = "I2sDriverConfig")
       => /\ c.transmit_or_receive = c.tr
          /\ (c.ms = "Slave")
             => (c.master_clock = FALSE /\ c.frequency = Prescaler(FALSE, 2))

\* the i2scfg value that names a role and a direction
ModeCfg(ms, tr) ==
    IF ms = "Slave" THEN (IF tr = "Transmit" THEN "slave_tx" ELSE "slave_rx")
    ELSE (IF tr = "Transmit" THEN "master_tx" ELSE "master_rx")

\* C21: in every configuration built from new_slave() or new_master() by
\* builder methods, the role and direction fields equal the type parameters
\* and a Slave-typed configuration has master_clock = false and frequency
\* Prescaler(false, 2); so the role and direction that construction wrote to
\* i2scfgr are the Mode by which the driver's operations are gated.
C21_ModeIsWhatWasWritten ==
    /\ (phase = "config") => TagsAreFields(cfg)
    /\ (phase = "driver")
       => /\ TagsAreFields(built)
          /\ (mode.api = "driver")
             => /\ mode.ms = built.ms /\ mode.tr = built.tr
                /\ regs.i2scfgr.i2scfg = ModeCfg(mode.ms, mode.tr)
                /\ (mode.ms = "Slave") => regs.i2spr = ResetI2spr

\* C21's case: a slave receive driver constructed from a configuration that
\* two builder calls have changed
C21_Witness ==
    /\ phase = "driver"
    /\ built.data_format = "Data32Channel32"
    /\ mode = [api |-> "driver", ms |-> "Slave", tr |-> "Receive"]
    /\ built.slave_or_master = "Slave"
    /\ built.transmit_or_receive = "Receive"
    /\ regs.i2scfgr.i2scfg = "slave_rx"

====
